---- MODULE Spec2Model ----
(***************************************************************************)
(* Model of the scroll-driven 3D hammer scene (HammerScene.tsx), the page  *)
(* scroll timelines (utils/GsapScroll) and the physics tech stack          *)
(* (TechStack.tsx).                                                        *)
(*                                                                         *)
(* HammerScene.tsx holds two versions of the component one after the other *)
(* (lines 1-272 and 274-553); `variant` says which one is running.         *)
(*                                                                         *)
(* Numbers.  Scroll positions are integers.  Every scroll section is       *)
(* SectionLen units long, so a trigger's progress is k / SectionLen with   *)
(* k in 0..SectionLen.  Real-valued outputs are kept as exact numerators:  *)
(*   position.y, opacity : numerator over 1000 * SectionLen                *)
(*   scale               : numerator over 10000 * SectionLen               *)
(***************************************************************************)
EXTENDS Integers, Sequences, FiniteSets, TLC

\* ---------------------------------------------------------------- bounds
\* Length of every scroll section in scroll units (progress denominator).
SectionLen == 3
\* Runs of HammerScene's mount effect that are followed.
MaxRuns == 2
\* Links in '.header' that are followed.
NumLinks == 1
\* Mounts of TechStack that are followed.
MaxTechMounts == 2
\* Intervals started by header-link clicks that are alive at once.
MaxIntervals == 1

\* ------------------------------------------------------- program constants
WideBreakpoint == 1024
TechBreakpoint == 768
\* tl2: the '.what-box-in' tween starts at 6 s and lasts 0.1 s (tenths).
WhatBoxDelay == 60
WhatBoxDuration == 1
\* tl2: the '.about-section' y tween lasts 6 s; opacity starts at 3 s, lasts 2 s.
AboutYDuration == 60
AboutFadeDelay == 30
AboutFadeDuration == 20

Max(a, b) == IF a >= b THEN a ELSE b
Min(a, b) == IF a <= b THEN a ELSE b

\* userData.scrollOpacity !== undefined
Undef == -1

\* Window widths tried by resizes, on both sides of and at the breakpoints.
Widths == {1000, WideBreakpoint, 1400}
\* ... and by resizes while the tech stack is followed.
TechWidths == {700, TechBreakpoint}

\* Meshes of /models/hammer.glb; the head is made of "Cube" meshes.
Meshes == {"Cube001", "Handle"}
NameIncludesCube(m) == m \in {"Cube001"}
\* The pool holds 5 bolts; the frame callback and the scroll handler treat
\* each bolt alike and on its own, so one bolt stands for all of them.
Bolts == {1}

\* ------------------------------------------------ scroll layout (sections)
\* landing-section trigger: [0, L]; about-section trigger: [L, 2L];
\* '.what-box-in' trigger: [2L, 3L], where the page ends.
AboutStart == SectionLen
WhatBoxStart == 2 * SectionLen
MaxScroll == 3 * SectionLen

\* progress = clamp((scroll - start) / (end - start), 0, 1), as k / SectionLen
Progress(start, s) == Max(0, Min(SectionLen, s - start))

\* --------------------------------------------------- hammer scroll outputs
\* const startY = isMobile ? -1.5 : -0.5   (second variant: -0.5 : 0)
StartY(v, mobile) ==
    IF v = 1 THEN (IF mobile THEN -1500 ELSE -500)
             ELSE (IF mobile THEN -500 ELSE 0)

\* const baseScale = isMobile ? 0.55 : 0.8  (second variant: 0.7 : 1.2)
BaseScale(v, mobile) ==
    IF v = 1 THEN (IF mobile THEN 550 ELSE 800)
             ELSE (IF mobile THEN 700 ELSE 1200)

\* el.position.y = startY - progress * 2.5   (second variant: * 8)
HammerY(v, mobile, k) ==
    StartY(v, mobile) * SectionLen - k * (IF v = 1 THEN 2500 ELSE 8000)

\* baseScale * (1 - progress * 0.1)          (second variant: * 0.3)
HammerScale(v, mobile, k) ==
    BaseScale(v, mobile) * (10 * SectionLen - k * (IF v = 1 THEN 1 ELSE 3))

\* (mutation: no Math.max(0, ...))
FadeOpacityUnclamped(k) == 1000 * SectionLen - k * 1500

\* Math.max(0, 1 - progress * 1.5)
FadeOpacity(k) == Max(0, 1000 * SectionLen - k * 1500)

\* (mutation: the group is mounted at the origin, whatever the layout)
RestYAtOrigin(v, mobile) == 0

\* <group position={position} scale={scale}>: the mounted rest pose
RestY(v, mobile) == StartY(v, mobile) * SectionLen
RestScale(v, mobile) == BaseScale(v, mobile) * 10 * SectionLen
FullOpacity == 1000 * SectionLen

VARIABLES
    variant,        \* 1 or 2: which version of HammerScene.tsx runs
    innerWidth,     \* window.innerWidth
    viewportMobile, \* HammerModel: viewport.width < 5
    scrollY,        \* page scroll position
    sceneMounted,   \* HammerScene is mounted
    sceneEffects,   \* HammerScene's passive effects have run for this mount
    sceneIsMobile,  \* HammerScene's isMobile state
    resizeListener, \* handleResize is attached to window
    handles,        \* every handle setProgress returned, oldest first
    failSignals,    \* failure signals sent to the loading collaborator
    modelStatus,    \* useGLTF("/models/hammer.glb"): idle/loading/ready/failed
    modelPhase,     \* HammerModel: unmounted / committed / effected
    triggers,       \* ScrollTrigger.getAll(), in creation order
    posY, scl, rotY,        \* the hammer group (meshRef.current)
    meshMat, meshOpacity, meshVisible,   \* per mesh of the glTF scene
    boltVisible, boltOpacity, scrollOpacity, \* per lightning bolt
    whatBoxDisplay, \* inline display of '.what-box-in' ("css": none written)
    frameOnUnset,   \* a frame callback dereferenced an unset group
    \* TechStack.tsx
    tsMounted,      \* TechStack is mounted
    tsGen,          \* how many times it has been mounted (names the instance)
    tsScrollListener, tsResizeListener,  \* window listeners attached
    tsIsMobile,     \* its isMobile state
    isActive,       \* its isActive state
    linkListeners,  \* per header link: the instances whose click listener it holds
    intervals,      \* per instance: live intervals started by link clicks
    workEl,         \* document.getElementById("work") finds an element
    workTop,        \* document offset of the top of #work
    secTop,         \* document offset of the top of the tech-stack section
    lateCall,       \* handleScroll ran for an instance that was unmounted
    offViewImpulse  \* a frame applied impulses with the section out of view

hammerVars ==
    << variant, innerWidth, viewportMobile, scrollY, sceneMounted, sceneEffects,
       sceneIsMobile, resizeListener, handles, failSignals, modelStatus,
       modelPhase, triggers, posY, scl, rotY, meshMat, meshOpacity,
       meshVisible, boltVisible, boltOpacity, scrollOpacity, whatBoxDisplay,
       frameOnUnset >>

techVars ==
    << tsMounted, tsGen, tsScrollListener, tsResizeListener, tsIsMobile,
       isActive, linkListeners, intervals, workEl, workTop, secTop, lateCall,
       offViewImpulse >>

vars == << hammerVars, techVars >>

\* ------------------------------------------------------------ ScrollTrigger
\* One entry of ScrollTrigger.getAll().  mobile is the isMobile the hammer's
\* onUpdate closed over; branch is the branch of `window.innerWidth > 1024`
\* whose tweens were put on the timeline; fired: onUpdate has been called.
Trig(kind, id, mobile, branch) ==
    [kind |-> kind, id |-> id, mobile |-> mobile, branch |-> branch,
     progress |-> 0, fired |-> FALSE]

TimelineKinds == {"tl1", "tl2", "tl3", "tM2", "career"}

\* Scroll position at which a trigger's range starts (each lasts SectionLen).
TriggerStart(kind) ==
    CASE kind \in {"hammer", "tl1"} -> 0
      [] kind = "tl2" -> AboutStart
      [] kind \in {"tl3", "tM2"} -> WhatBoxStart
      [] OTHER -> WhatBoxStart

\* if (window.innerWidth > 1024) ... else ...
Branch(w) == IF w > WideBreakpoint THEN "wide" ELSE "compact"

\* ScrollTrigger.create({ id: "hammer", ... })   (second variant: no id)
HammerTrigger(v, mobile) ==
    Trig("hammer", IF v = 1 THEN "hammer" ELSE "", mobile, "none")

\* setAllTimeline(): careerTimeline and the tweens of the branch taken.
SetAllTimeline(w) == << Trig("career", "", FALSE, Branch(w)) >>

\* setPageScrollAnimations(): tl1, tl2, tl3 always; tM2 in the else branch.
SetPageScrollAnimations(w) ==
    << Trig("tl1", "", FALSE, Branch(w)),
       Trig("tl2", "", FALSE, Branch(w)),
       Trig("tl3", "", FALSE, Branch(w)) >>
    \o (IF w > WideBreakpoint THEN << >>
        ELSE << Trig("tM2", "", FALSE, Branch(w)) >>)

\* fromTo(".what-box-in", {display: "none"}, ...) renders its start at once;
\* tM2.to(...) writes nothing until it plays.
PageScrollInitialDisplay(w, d) == IF w > WideBreakpoint THEN "none" ELSE d

\* (mutation: the effect kills nothing before it creates the timelines)
KeptAll(v, t) == TRUE

\* HammerScene's mount effect: the triggers it leaves alone.
\*   trigger !== workTrigger && trigger !== hammerTrigger  (variant 1)
\*   trigger !== workTrigger                               (variant 2)
KeptOnMount(v, t) == t.id = "work" \/ (v = 1 /\ t.id = "hammer")

\* trigger.kill() of the hammer's own trigger
KillHammer(ts) == SelectSeq(ts, LAMBDA t : t.kind # "hammer")

\* Length of tl2 (tenths of a second): the latest end of its tweens.
Tl2Duration ==
    Max(AboutYDuration,
        Max(AboutFadeDelay + AboutFadeDuration, WhatBoxDelay + WhatBoxDuration))

\* (mutation: .to() instead of .fromTo(): no start value to go back to)
Tl2DisplayNoStart(k) ==
    IF k * Tl2Duration > WhatBoxDelay * SectionLen THEN "flex"
    ELSE whatBoxDisplay

\* tl2 scrubbed to progress k / SectionLen: a non-tweenable value shows the
\* tween's end value once the tween's ratio is above 0, its start value at 0.
Tl2Display(k) ==
    IF k * Tl2Duration > WhatBoxDelay * SectionLen THEN "flex" ELSE "none"

\* tM2 has no scrub: toggleActions "play none none none" plays it on enter
\* (progress leaves 0) and nothing ever plays it backwards.
TM2Display(prev, k, d) == IF prev = 0 /\ k > 0 THEN "flex" ELSE d

\* '.what-box-in' display after trigger t has handled scroll position s.
DisplayStep(t, s, d) ==
    LET k == Progress(TriggerStart(t.kind), s) IN
    IF k = t.progress THEN d
    ELSE IF t.kind = "tl2" /\ t.branch = "wide" THEN Tl2Display(k)
    ELSE IF t.kind = "tM2" THEN TM2Display(t.progress, k, d)
    ELSE d

RECURSIVE DisplayAfter(_, _, _)
DisplayAfter(ts, s, d) ==
    IF ts = << >> THEN d
    ELSE DisplayAfter(Tail(ts), s, DisplayStep(Head(ts), s, d))

\* Every live trigger takes the new scroll position.
Scrolled(ts, s) ==
    [i \in 1..Len(ts) |->
        LET k == Progress(TriggerStart(ts[i].kind), s) IN
        IF k = ts[i].progress THEN ts[i]
        ELSE [ts[i] EXCEPT !.progress = k, !.fired = TRUE]]

HasHammer(ts) == \E i \in 1..Len(ts) : ts[i].kind = "hammer"
TheHammer(ts) == ts[CHOOSE i \in 1..Len(ts) : ts[i].kind = "hammer"]

\* --------------------------------------------------------------- TechStack
Links == 1..NumLinks
Gens == 1..MaxTechMounts

\* The viewport is one section high, and so is the tech-stack section.
ViewportHeight == SectionLen
SecBottom(top) == top + SectionLen

\* Some part of the section is inside the viewport.
InView(s, top) == s < SecBottom(top) /\ s + ViewportHeight > top

\* handleScroll: threshold = workEl.getBoundingClientRect().top, which is
\* relative to the viewport (document offset minus scroll position);
\* setIsActive(scrollY > threshold); nothing happens without the element.
RectTop(top, s) == top - s

\* (mutation: no `if (workEl)`: a missing element counts as the page top)
HandleScrollUnguarded(s, present, top, old) ==
    s > RectTop(IF present THEN top ELSE 0, s)

HandleScroll(s, present, top, old) ==
    IF present THEN s > RectTop(top, s) ELSE old

\* handleResize = () => setIsMobile(window.innerWidth < 768)
TechIsMobile(w) == w < TechBreakpoint

\* TechStack is not mounted and the page layout is fixed.
TechIdle ==
    /\ tsMounted = FALSE
    /\ tsGen = 0
    /\ tsScrollListener = FALSE
    /\ tsResizeListener = FALSE
    /\ tsIsMobile = FALSE
    /\ isActive = FALSE
    /\ linkListeners = [l \in Links |-> {}]
    /\ intervals = [g \in Gens |-> 0]
    /\ workEl = TRUE
    /\ workTop = SectionLen
    /\ secTop = SectionLen
    /\ lateCall = FALSE
    /\ offViewImpulse = FALSE

\* TechStack is not mounted; #work may be missing; it starts in the first
\* two sections and the tech-stack section starts at or after it.
TechInit ==
    /\ tsMounted = FALSE
    /\ tsGen = 0
    /\ tsScrollListener = FALSE
    /\ tsResizeListener = FALSE
    /\ tsIsMobile = FALSE
    /\ isActive = FALSE
    /\ linkListeners = [l \in Links |-> {}]
    /\ intervals = [g \in Gens |-> 0]
    /\ workEl \in BOOLEAN
    /\ workTop \in 1..SectionLen
    /\ secTop \in workTop..(2 * SectionLen)
    /\ lateCall = FALSE
    /\ offViewImpulse = FALSE

\* -------------------------------------------------------------------- Init
\* Nothing is mounted; the page may already hold Work.tsx's "work" trigger.
HammerInit ==
    /\ variant \in {1, 2}
    /\ innerWidth \in Widths
    /\ viewportMobile \in BOOLEAN
    /\ scrollY = 0
    /\ sceneMounted = FALSE
    /\ sceneEffects = FALSE
    /\ sceneIsMobile = FALSE
    /\ resizeListener = FALSE
    /\ handles = << >>
    /\ failSignals = 0
    /\ modelStatus = "idle"
    /\ modelPhase = "unmounted"
    /\ triggers \in { << >>, << Trig("work", "work", FALSE, "none") >> }
    /\ posY = 0
    /\ scl = 0
    /\ rotY = FALSE
    /\ meshMat = [m \in Meshes |-> "gltf"]
    /\ meshOpacity = [m \in Meshes |-> FullOpacity]
    /\ meshVisible = [m \in Meshes |-> TRUE]
    /\ boltVisible = [b \in Bolts |-> TRUE]
    /\ boltOpacity = [b \in Bolts |-> 0]
    /\ scrollOpacity = [b \in Bolts |-> Undef]
    /\ whatBoxDisplay = "css"
    /\ frameOnUnset = FALSE

groupVars == << posY, scl, rotY >>
meshVars == << meshMat, meshOpacity, meshVisible >>
boltVars == << boltVisible, boltOpacity, scrollOpacity >>
windowVars == << innerWidth, viewportMobile, scrollY >>

\* ------------------------------------------------------ HammerScene: mount
\* const [isMobile, setIsMobile] = useState(window.innerWidth < 1024)
SceneIsMobile(w) == w < WideBreakpoint

MountScene ==
    /\ ~sceneMounted
    /\ Len(handles) < MaxRuns
    /\ sceneMounted' = TRUE
    /\ sceneEffects' = FALSE
    /\ sceneIsMobile' = SceneIsMobile(innerWidth)
    /\ UNCHANGED << techVars, variant, windowVars, resizeListener, handles, failSignals,
                    modelStatus, modelPhase, triggers, groupVars, meshVars,
                    boltVars, whatBoxDisplay, frameOnUnset >>

\* let progress = setProgress(...); progress.loaded();
\* The handle remembers what the model's state was when loaded() was called.
NewHandle(status) == [loaded |-> 1, cleared |-> 0, modelAtLoaded |-> status]

\* (mutation: the cleanup does not call clear())
ClearForgotten(hs) == hs

\* progress.clear() on the handle the effect run holds (the newest one)
ClearCurrent(hs) ==
    [i \in 1..Len(hs) |->
        IF i = Len(hs) THEN [hs[i] EXCEPT !.cleared = @ + 1] ELSE hs[i]]

\* ScrollTrigger.getAll().forEach(kill unless kept); setAllTimeline();
\* setPageScrollAnimations();
TriggersAfterMountEffect(v, ts, w) ==
    SelectSeq(ts, LAMBDA t : KeptOnMount(v, t))
        \o SetAllTimeline(w) \o SetPageScrollAnimations(w)

\* The body of HammerScene's second effect.
LoadingEffectBody(hs) ==
    /\ handles' = Append(hs, NewHandle(modelStatus))
    /\ triggers' = TriggersAfterMountEffect(variant, triggers, innerWidth)
    /\ whatBoxDisplay' = PageScrollInitialDisplay(innerWidth, whatBoxDisplay)

\* Both passive effects of HammerScene run after its first commit.
SceneEffects ==
    /\ sceneMounted
    /\ ~sceneEffects
    /\ Len(handles) < MaxRuns
    /\ sceneEffects' = TRUE
    /\ resizeListener' = TRUE
    /\ LoadingEffectBody(handles)
    /\ UNCHANGED << techVars, variant, windowVars, sceneMounted, sceneIsMobile,
                    failSignals, modelStatus, modelPhase, groupVars, meshVars,
                    boltVars, frameOnUnset >>

\* setLoading changes identity: the second effect is cleaned up and run again.
SceneEffectRerun ==
    /\ sceneMounted
    /\ sceneEffects
    /\ Len(handles) < MaxRuns
    /\ LoadingEffectBody(ClearCurrent(handles))
    /\ UNCHANGED << techVars, variant, windowVars, sceneMounted, sceneEffects,
                    sceneIsMobile, resizeListener, failSignals, modelStatus,
                    modelPhase, groupVars, meshVars, boltVars, frameOnUnset >>

\* HammerScene unmounts (React has run its pending passive effects by then):
\* HammerModel's scroll effect cleanup (trigger.kill()),
\* removeEventListener("resize", handleResize), progress.clear().
SceneCleanupTriggers(ts, phase) ==
    IF phase = "effected" THEN KillHammer(ts) ELSE ts

UnmountScene ==
    /\ sceneMounted
    /\ sceneEffects
    /\ sceneMounted' = FALSE
    /\ sceneEffects' = FALSE
    /\ modelPhase' = "unmounted"
    /\ triggers' = SceneCleanupTriggers(triggers, modelPhase)
    /\ resizeListener' = FALSE
    /\ handles' = ClearCurrent(handles)
    /\ UNCHANGED << techVars, variant, windowVars, sceneIsMobile, failSignals,
                    modelStatus, groupVars, meshVars, boltVars, whatBoxDisplay,
                    frameOnUnset >>

\* ------------------------------------------------------ HammerModel: load
\* The Canvas renders HammerModel; useGLTF starts fetching and suspends.
RenderModel ==
    /\ sceneMounted
    /\ modelStatus = "idle"
    /\ modelStatus' = "loading"
    /\ UNCHANGED << techVars, variant, windowVars, sceneMounted, sceneEffects,
                    sceneIsMobile, resizeListener, handles, failSignals,
                    modelPhase, triggers, groupVars, meshVars, boltVars,
                    whatBoxDisplay, frameOnUnset >>

ModelLoaded ==
    /\ modelStatus = "loading"
    /\ modelStatus' = "ready"
    /\ UNCHANGED << techVars, variant, windowVars, sceneMounted, sceneEffects,
                    sceneIsMobile, resizeListener, handles, failSignals,
                    modelPhase, triggers, groupVars, meshVars, boltVars,
                    whatBoxDisplay, frameOnUnset >>

\* Fetching or parsing fails: useGLTF throws; nothing in the scene catches
\* it and nothing reports it to the loading collaborator.
ModelFailed ==
    /\ modelStatus = "loading"
    /\ modelStatus' = "failed"
    /\ UNCHANGED << techVars, variant, windowVars, sceneMounted, sceneEffects,
                    sceneIsMobile, resizeListener, handles, failSignals,
                    modelPhase, triggers, groupVars, meshVars, boltVars,
                    whatBoxDisplay, frameOnUnset >>

\* useLayoutEffect "Setup materials": every mesh gets a new standard
\* material with opacity 1; variant 2 hides "Cube" meshes and skips them.
SetupMat(v, m, old) == IF v = 2 /\ NameIncludesCube(m) THEN old ELSE "standard"
SetupOpacity(v, m, old) ==
    IF v = 2 /\ NameIncludesCube(m) THEN old ELSE FullOpacity
SetupVisible(v, m, old) == IF v = 2 /\ NameIncludesCube(m) THEN FALSE ELSE old

\* HammerModel commits: the group gets its position and scale props, the
\* bolts are created (opacity 0), the layout effect sets the materials up.
ModelCommit ==
    /\ sceneMounted
    /\ modelStatus = "ready"
    /\ modelPhase = "unmounted"
    /\ modelPhase' = "committed"
    /\ posY' = RestY(variant, viewportMobile)
    /\ scl' = RestScale(variant, viewportMobile)
    /\ rotY' = FALSE
    /\ meshMat' = [m \in Meshes |-> SetupMat(variant, m, meshMat[m])]
    /\ meshOpacity' = [m \in Meshes |-> SetupOpacity(variant, m, meshOpacity[m])]
    /\ meshVisible' = [m \in Meshes |-> SetupVisible(variant, m, meshVisible[m])]
    /\ boltVisible' = [b \in Bolts |-> TRUE]
    /\ boltOpacity' = [b \in Bolts |-> 0]
    /\ scrollOpacity' = [b \in Bolts |-> Undef]
    /\ UNCHANGED << techVars, variant, windowVars, sceneMounted, sceneEffects,
                    sceneIsMobile, resizeListener, handles, failSignals,
                    modelStatus, triggers, whatBoxDisplay, frameOnUnset >>

\* meshRef.current / groupRef.current is set: React attaches the refs when
\* it commits the group, before any passive effect or frame callback runs.
\*   if (meshRef.current) / if (!groupRef.current) return
RefSet(phase) == phase # "unmounted"

\* const el = meshRef.current; if (!el) return;
\* const trigger = ScrollTrigger.create(...); return () => trigger.kill()
ScrollEffectTriggers(v, ts, el, mobile) ==
    IF el THEN Append(ts, HammerTrigger(v, mobile)) ELSE ts
\* "effected": the effect holds a trigger and its cleanup is registered.
ScrollEffectPhase(el, phase) == IF el THEN "effected" ELSE phase

\* useEffect "Scroll Animation"
ModelScrollEffect ==
    /\ modelPhase = "committed"
    /\ modelPhase' = ScrollEffectPhase(RefSet(modelPhase), modelPhase)
    /\ triggers' = ScrollEffectTriggers(variant, triggers, RefSet(modelPhase),
                                        viewportMobile)
    /\ UNCHANGED << techVars, variant, windowVars, sceneMounted, sceneEffects,
                    sceneIsMobile, resizeListener, handles, failSignals,
                    modelStatus, groupVars, meshVars, boltVars, whatBoxDisplay,
                    frameOnUnset >>

\* ------------------------------------------- HammerModel: onUpdate (scroll)
\* What onUpdate writes at progress k / SectionLen; `mobile` is the isMobile
\* of the render whose effect created the trigger.
\* (mutation: the step is taken from where the group is, not from startY)
UpdYFromCurrent(v, mobile, k) == posY - k * (IF v = 1 THEN 2500 ELSE 8000)

UpdY(v, mobile, k) == HammerY(v, mobile, k)
UpdScale(v, mobile, k) == HammerScale(v, mobile, k)

\* scene.traverse: mat.opacity = Math.max(0, 1 - progress * 1.5)
\* (variant 2 returns early on "Cube" meshes)
UpdMeshOpacity(v, m, k, old) ==
    IF v = 2 /\ NameIncludesCube(m) THEN old ELSE FadeOpacity(k)

\* (mutation: a mesh is only ever hidden: visible = visible && opacity > 0)
UpdMeshVisibleLatch(v, m, k, old) ==
    IF v = 1 \/ NameIncludesCube(m) THEN old ELSE old /\ FadeOpacity(k) > 0

\* (mutation: no `if (child.name.includes("Cube")) return` in onUpdate)
UpdMeshVisibleNoSkip(v, m, k, old) ==
    IF v = 1 THEN old ELSE FadeOpacity(k) > 0

\* variant 2 only: child.visible = mat.opacity > 0
UpdMeshVisible(v, m, k, old) ==
    IF v = 1 \/ NameIncludesCube(m) THEN old ELSE FadeOpacity(k) > 0

\* variant 1 only: el.traverse: child.userData.scrollOpacity = ... for the
\* children named 'lightningBolt' (variant 2's bolts have no name)
UpdScrollOpacity(v, k, old) == IF v = 1 THEN FadeOpacity(k) ELSE old

\* (mutation: the fade of the lightning is written to the bolts' materials,
\* the way the comment in el.traverse considers)
OnUpdateFadingBolts(mobile, k) ==
    /\ posY' = UpdY(variant, mobile, k)
    /\ scl' = UpdScale(variant, mobile, k)
    /\ meshOpacity' =
          [m \in Meshes |-> UpdMeshOpacity(variant, m, k, meshOpacity[m])]
    /\ meshVisible' =
          [m \in Meshes |-> UpdMeshVisible(variant, m, k, meshVisible[m])]
    /\ scrollOpacity' =
          [b \in Bolts |-> UpdScrollOpacity(variant, k, scrollOpacity[b])]
    /\ boltOpacity' = [b \in Bolts |-> 1000 * FadeOpacity(k)]
    /\ UNCHANGED << rotY, meshMat, boltVisible >>

OnUpdate(mobile, k) ==
    /\ posY' = UpdY(variant, mobile, k)
    /\ scl' = UpdScale(variant, mobile, k)
    /\ meshOpacity' =
          [m \in Meshes |-> UpdMeshOpacity(variant, m, k, meshOpacity[m])]
    /\ meshVisible' =
          [m \in Meshes |-> UpdMeshVisible(variant, m, k, meshVisible[m])]
    /\ scrollOpacity' =
          [b \in Bolts |-> UpdScrollOpacity(variant, k, scrollOpacity[b])]
    /\ UNCHANGED << rotY, meshMat, boltVisible, boltOpacity >>

\* A scroll event (or a ScrollTrigger update at the current position): every
\* live trigger whose progress changed runs its callback or scrubs its
\* timeline, and TechStack's scroll listener runs if it is attached.
ScrollTo(s) ==
    /\ scrollY' = s
    /\ triggers' = Scrolled(triggers, s)
    /\ whatBoxDisplay' = DisplayAfter(triggers, s, whatBoxDisplay)
    /\ IF HasHammer(triggers) /\ Progress(0, s) # TheHammer(triggers).progress
         THEN OnUpdate(TheHammer(triggers).mobile, Progress(0, s))
         ELSE UNCHANGED << groupVars, meshVars, boltVars >>
    /\ isActive' = IF tsScrollListener
                      THEN HandleScroll(s, workEl, workTop, isActive)
                      ELSE isActive
    /\ UNCHANGED << variant, innerWidth, viewportMobile, sceneMounted,
                    sceneEffects, sceneIsMobile, resizeListener, handles,
                    failSignals, modelStatus, modelPhase, frameOnUnset,
                    tsMounted, tsGen, tsScrollListener, tsResizeListener,
                    tsIsMobile, linkListeners, intervals, workEl, workTop,
                    secTop, lateCall, offViewImpulse >>

Scroll == \E s \in 0..MaxScroll : ScrollTo(s)

\* ------------------------------------------------------------------ resize
\* HammerModel re-renders with a new isMobile: the position and scale props
\* change and are applied again; the scroll effect ([scene, isMobile]) is
\* cleaned up (trigger.kill()) and run again.
ResizeTriggers(v, ts, phase, changed, vm) ==
    IF changed /\ phase = "effected"
        THEN Append(KillHammer(ts), HammerTrigger(v, vm))
        ELSE ts

\* handleResize = () => setIsMobile(window.innerWidth < 1024): all it does.
HandleResize(attached, w, old) == IF attached THEN SceneIsMobile(w) ELSE old

ResizeTo(w, vm) ==
    /\ innerWidth' = w
    /\ viewportMobile' = vm
    /\ sceneIsMobile' = HandleResize(resizeListener, w, sceneIsMobile)
    /\ triggers' = ResizeTriggers(variant, triggers, modelPhase,
                                  vm # viewportMobile, vm)
    /\ IF vm # viewportMobile /\ modelPhase # "unmounted"
         THEN /\ posY' = RestY(variant, vm)
              /\ scl' = RestScale(variant, vm)
         ELSE UNCHANGED << posY, scl >>
    /\ tsIsMobile' = IF tsResizeListener THEN TechIsMobile(w) ELSE tsIsMobile
    /\ UNCHANGED << variant, scrollY, sceneMounted, sceneEffects, resizeListener,
                    handles, failSignals, modelStatus, modelPhase, rotY,
                    meshVars, boltVars, whatBoxDisplay, frameOnUnset,
                    tsMounted, tsGen, tsScrollListener, tsResizeListener,
                    isActive, linkListeners, intervals, workEl, workTop,
                    secTop, lateCall, offViewImpulse >>

Resize == \E w \in Widths, vm \in BOOLEAN : ResizeTo(w, vm)

\* -------------------------------------------------------------- frame tick
\* baseOpacity = 0.8 + Math.random() * 0.2, in thousandths; 0 stands for
\* Math.random() <= 0.94 (the bolt is hidden this frame).
FlickerChoices == {0, 800, 1000}

\* (mutation: the first variant's tick ignores userData.scrollOpacity too)
BoltOpacityBaseOnly(v, base, so) == base * FullOpacity

\* mat.opacity = baseOpacity * scrollOpacity (variant 1; scrollOpacity is 1
\* while userData.scrollOpacity is undefined); variant 2: mat.opacity = base
BoltOpacity(v, base, so) ==
    base * (IF v = 1 /\ so # Undef THEN so ELSE FullOpacity)

\* Lightning's useFrame: what it writes for one bolt.
FlickerVisible(c) == c # 0
FlickerOpacity(v, c, so, old) == IF c = 0 THEN old ELSE BoltOpacity(v, c, so)
\* ... and what it leaves in userData.scrollOpacity.
FlickerScrollOpacity(so) == so

\* HammerModel's useFrame: rotation.y += delta * 0.15.  The angle is kept as
\* the parity of the ticks applied: every tick changes it.
IdleRotation(r) == ~r

\* One frame of the Canvas: HammerModel's and Lightning's useFrame callbacks.
FrameTick(f) ==
    /\ sceneMounted
    /\ modelPhase # "unmounted"
    /\ rotY' = IF RefSet(modelPhase) THEN IdleRotation(rotY) ELSE rotY
    /\ boltVisible' = [b \in Bolts |-> FlickerVisible(f[b])]
    /\ boltOpacity' =
          [b \in Bolts |->
              FlickerOpacity(variant, f[b], scrollOpacity[b], boltOpacity[b])]
    /\ scrollOpacity' = [b \in Bolts |-> FlickerScrollOpacity(scrollOpacity[b])]
    /\ frameOnUnset' = (frameOnUnset \/ ~RefSet(modelPhase))
    /\ UNCHANGED << techVars, variant, windowVars, sceneMounted, sceneEffects,
                    sceneIsMobile, resizeListener, handles, failSignals,
                    modelStatus, modelPhase, triggers, posY, scl, meshVars,
                    whatBoxDisplay >>

Frame == \E f \in [Bolts -> FlickerChoices] : FrameTick(f)

\* --------------------------------------------------------------- TechStack
hammerRest == << variant, sceneMounted, sceneEffects, sceneIsMobile,
                 resizeListener, handles, failSignals, modelStatus, modelPhase,
                 triggers, groupVars, meshVars, boltVars, whatBoxDisplay,
                 frameOnUnset >>

\* The effect of TechStack: the window listeners and a click listener on
\* every '.header a'; useState(false), useState(window.innerWidth < 768).
TechMount ==
    /\ ~tsMounted
    /\ tsGen < MaxTechMounts
    /\ tsMounted' = TRUE
    /\ tsGen' = tsGen + 1
    /\ isActive' = FALSE
    /\ tsIsMobile' = TechIsMobile(innerWidth)
    /\ tsScrollListener' = TRUE
    /\ tsResizeListener' = TRUE
    /\ linkListeners' = [l \in Links |-> linkListeners[l] \cup {tsGen + 1}]
    /\ UNCHANGED << hammerRest, windowVars, intervals, workEl, workTop, secTop,
                    lateCall, offViewImpulse >>

\* The effect's cleanup: the click listeners it leaves on the links.
LinksAfterCleanup(ls, g) == ls

\* The cleanup removes the two window listeners and nothing else.
TechUnmount ==
    /\ tsMounted
    /\ tsMounted' = FALSE
    /\ tsScrollListener' = FALSE
    /\ tsResizeListener' = FALSE
    /\ linkListeners' = [l \in Links |-> LinksAfterCleanup(linkListeners[l], tsGen)]
    /\ UNCHANGED << hammerRest, windowVars, tsGen, tsIsMobile, isActive,
                    intervals, workEl, workTop, secTop, lateCall,
                    offViewImpulse >>

RECURSIVE SumTo(_, _)
SumTo(f, n) == IF n = 0 THEN 0 ELSE f[n] + SumTo(f, n - 1)

\* A click on a header link: every click listener on it starts an interval
\* (every 10 ms) and a timeout (1 s) that clears it.
HeaderClick(l) ==
    /\ linkListeners[l] # {}
    /\ SumTo(intervals, MaxTechMounts) + Cardinality(linkListeners[l])
          <= MaxIntervals
    /\ intervals' = [g \in Gens |->
                        IF g \in linkListeners[l] THEN intervals[g] + 1
                        ELSE intervals[g]]
    /\ UNCHANGED << hammerRest, windowVars, tsMounted, tsGen, tsScrollListener,
                    tsResizeListener, tsIsMobile, isActive, linkListeners,
                    workEl, workTop, secTop, lateCall, offViewImpulse >>

Click == \E l \in Links : HeaderClick(l)

\* An interval of instance g fires: handleScroll() of that instance.
IntervalFire(g) ==
    /\ intervals[g] > 0
    /\ IF tsMounted /\ g = tsGen
         THEN /\ isActive' = HandleScroll(scrollY, workEl, workTop, isActive)
              /\ UNCHANGED lateCall
         ELSE /\ lateCall' = TRUE
              /\ UNCHANGED isActive
    /\ UNCHANGED << hammerRest, windowVars, tsMounted, tsGen, tsScrollListener,
                    tsResizeListener, tsIsMobile, linkListeners, intervals,
                    workEl, workTop, secTop, offViewImpulse >>

IntervalTick == \E g \in Gens : IntervalFire(g)

\* The timeout fires: clearInterval(interval)
IntervalClear(g) ==
    /\ intervals[g] > 0
    /\ intervals' = [intervals EXCEPT ![g] = @ - 1]
    /\ UNCHANGED << hammerRest, windowVars, tsMounted, tsGen, tsScrollListener,
                    tsResizeListener, tsIsMobile, isActive, linkListeners,
                    workEl, workTop, secTop, lateCall, offViewImpulse >>

IntervalTimeout == \E g \in Gens : IntervalClear(g)

\* SphereGeo's and Pointer's useFrame: if (!isActive) return; otherwise the
\* impulse is applied and the pointer body moved.
AppliesImpulse(active) == active

TechFrame ==
    /\ tsMounted
    /\ offViewImpulse' =
          (offViewImpulse \/ (AppliesImpulse(isActive) /\ ~InView(scrollY, secTop)))
    /\ UNCHANGED << hammerRest, windowVars, tsMounted, tsGen, tsScrollListener,
                    tsResizeListener, tsIsMobile, isActive, linkListeners,
                    intervals, workEl, workTop, secTop, lateCall >>

TechResize == \E w \in TechWidths, vm \in {viewportMobile} : ResizeTo(w, vm)

\* ---------------------------------------------------------- specifications
Init == HammerInit /\ TechIdle

\* The same, on a page without the "work" trigger and off the breakpoint.
InitPlain == Init /\ triggers = << >> /\ innerWidth # WideBreakpoint

\* The same, at one window width.
InitFrame == InitPlain /\ innerWidth > WideBreakpoint

\* The scene's whole life: mounts, effect re-runs, unmounts, load failures
\* and resizes.
NextLife ==
    \/ MountScene
    \/ SceneEffects
    \/ SceneEffectRerun
    \/ UnmountScene
    \/ RenderModel
    \/ ModelLoaded
    \/ ModelFailed
    \/ ModelCommit
    \/ ModelScrollEffect
    \/ Resize

Spec == Init /\ [][NextLife]_vars

\* A mounted scene under scrolling and resizing.
NextScroll ==
    \/ MountScene
    \/ SceneEffects
    \/ RenderModel
    \/ ModelLoaded
    \/ ModelCommit
    \/ ModelScrollEffect
    \/ Scroll
    \/ Resize

SpecScroll == InitPlain /\ [][NextScroll]_vars

\* A mounted scene under scrolling and frame ticks.
NextFrame ==
    \/ MountScene
    \/ SceneEffects
    \/ RenderModel
    \/ ModelLoaded
    \/ ModelCommit
    \/ ModelScrollEffect
    \/ Scroll
    \/ Frame

SpecFrame == InitFrame /\ [][NextFrame]_vars

\* The tech stack alone: the hammer scene is not mounted.
InitTech ==
    /\ HammerInit /\ variant = 1 /\ ~viewportMobile /\ triggers = << >>
    /\ innerWidth > WideBreakpoint
    /\ TechInit

NextTech ==
    \/ TechMount
    \/ TechUnmount
    \/ Scroll
    \/ TechResize
    \/ Click
    \/ IntervalTick
    \/ IntervalTimeout
    \/ TechFrame

SpecTech == InitTech /\ [][NextTech]_vars

\* The whole page: the tech stack and the hammer scene mount and the page
\* is scrolled; #work may be missing.
InitPage ==
    /\ HammerInit /\ ~viewportMobile /\ triggers = << >>
    /\ innerWidth > WideBreakpoint
    /\ TechInit /\ secTop = workTop

NextPage ==
    \/ TechMount
    \/ Click
    \/ IntervalTick
    \/ IntervalTimeout
    \/ MountScene
    \/ SceneEffects
    \/ RenderModel
    \/ ModelLoaded
    \/ ModelCommit
    \/ ModelScrollEffect
    \/ Scroll

SpecPage == InitPage /\ [][NextPage]_vars

\* ------------------------------------------------------------------ claims
Synced(t) == t.progress = Progress(TriggerStart(t.kind), scrollY)
LiveOfKind(kind) == \E i \in 1..Len(triggers) : triggers[i].kind = kind

\* C1: with the layout mode fixed (the trigger's isMobile), after any
\* sequence of onUpdate calls that ends at progress p the group's
\* position.y and scale, every faded mesh material's opacity and every
\* bolt's userData.scrollOpacity are what a single update at p writes.
C1_PureFunctionOfProgress ==
    (HasHammer(triggers) /\ TheHammer(triggers).fired) =>
        LET t == TheHammer(triggers) IN
        /\ posY = HammerY(variant, t.mobile, t.progress)
        /\ scl = HammerScale(variant, t.mobile, t.progress)
        /\ \A m \in Meshes :
              meshOpacity[m] =
                 (IF variant = 2 /\ NameIncludesCube(m) THEN FullOpacity
                  ELSE FadeOpacity(t.progress))
        /\ \A b \in Bolts :
              scrollOpacity[b] =
                 (IF variant = 1 THEN FadeOpacity(t.progress) ELSE Undef)

\* C1 witness: the handler has run and progress is back at 0 (it went
\* forward and came back, or jumped), with the group at its start values.
C1_Witness ==
    /\ HasHammer(triggers)
    /\ TheHammer(triggers).fired
    /\ TheHammer(triggers).progress = 0
    /\ posY = RestY(variant, TheHammer(triggers).mobile)

\* C2: once HammerScene is torn down, no trigger or listener the scene
\* registered is left: not the hammer's trigger, not the timelines'
\* triggers, not the resize listener.
C2_AllDetachedAfterTeardown ==
    (~sceneMounted /\ Len(handles) > 0) =>
        /\ ~resizeListener
        /\ \A i \in 1..Len(triggers) :
              triggers[i].kind \notin (TimelineKinds \cup {"hammer"})

\* C3: once TechStack is unmounted, none of its listeners is attached (window
\* scroll, window resize, the click listeners on the header links) and no
\* interval calls handleScroll for the unmounted instance.
C3_NothingLeftAfterUnmount ==
    (~tsMounted /\ tsGen > 0) =>
        /\ ~tsScrollListener
        /\ ~tsResizeListener
        /\ \A l \in Links : linkListeners[l] = {}
        /\ ~lateCall

\* C4 (as claimed): no scroll handler writes the scene graph: a scroll step
\* leaves the group's position and scale and the materials' opacity alone.
C4_ScrollWritesNoSceneGraph ==
    [][Scroll => UNCHANGED << posY, scl, meshOpacity, meshVisible >>]_vars

\* C4 (amended): the scroll handler and the frame tick write disjoint
\* fields.  A frame tick leaves alone what onUpdate writes (position.y,
\* scale, the hammer materials' opacity and visibility, the bolts'
\* userData.scrollOpacity); a scroll step leaves alone what the frame tick
\* writes (the rotation, the bolts' visibility and material opacity).
C4_DisjointWriters ==
    [][ /\ Frame => UNCHANGED << posY, scl, meshOpacity, meshVisible,
                                 scrollOpacity >>
        /\ Scroll => UNCHANGED << rotY, boltVisible, boltOpacity >> ]_vars

\* C4 witness: both writers have acted on the mounted hammer: onUpdate moved
\* the group off its start position and a tick rotated it and lit a bolt.
C4_Witness ==
    /\ HasHammer(triggers)
    /\ TheHammer(triggers).fired
    /\ posY # RestY(variant, TheHammer(triggers).mobile)
    /\ rotY
    /\ \E b \in Bolts : boltVisible[b] /\ boltOpacity[b] > 0

\* C5: the timelines carry the tweens of the branch that matches the
\* current window width, also after resizes.
C5_TweensMatchWidth ==
    (sceneMounted /\ sceneEffects) =>
        /\ \A i \in 1..Len(triggers) :
              triggers[i].kind \in TimelineKinds =>
                  triggers[i].branch = Branch(innerWidth)
        /\ LiveOfKind("tM2") <=> (Branch(innerWidth) = "compact")

\* C6: loaded() is called only once the hammer model has finished loading.
C6_LoadedAfterModelReady ==
    \A i \in 1..Len(handles) :
        handles[i].loaded > 0 => handles[i].modelAtLoaded = "ready"

\* C7: when obtaining the model has failed, the loading collaborator has
\* received exactly one failure signal, and no frame callback has worked on
\* an unset group.
C7_FailureSignalledOnce ==
    modelStatus = "failed" => (failSignals = 1 /\ ~frameOnUnset)

\* C8: every handle setProgress returned has loaded() called exactly once;
\* clear() is called at most once, only after loaded(), exactly once by
\* the time its effect run is cleaned up (a re-run or the unmount), and not
\* before; no handle is left uncleared once the scene is unmounted.
C8_LoadingLifecycle ==
    \A i \in 1..Len(handles) :
        /\ handles[i].loaded = 1
        /\ handles[i].cleared <= handles[i].loaded
        /\ handles[i].cleared =
              (IF i = Len(handles) /\ sceneMounted /\ sceneEffects
               THEN 0 ELSE 1)

\* C8 witness: two effect runs have come and gone; the scene is unmounted.
C8_Witness ==
    /\ Len(handles) >= 2
    /\ ~sceneMounted
    /\ \A i \in 1..Len(handles) : handles[i].cleared = 1

\* C9: isActive is true only while the tech-stack section is in view, and
\* no frame applies impulses while it is out of view.
C9_ActiveOnlyInView ==
    /\ (tsMounted /\ isActive) => InView(scrollY, secTop)
    /\ ~offViewImpulse

\* C10 (as claimed): in both layouts the display of '.what-box-in' is
\* decided by where the scroll position ended: in the wide layout by tl2's
\* progress, in the compact layout by whether the position is past the start
\* of tM2's trigger (flex) or not (what it was before any scroll).
C10_DisplayFollowsScroll ==
    \A i \in 1..Len(triggers) :
        LET t == triggers[i] IN
        /\ (t.kind = "tl2" /\ t.branch = "wide" /\ Synced(t)) =>
              whatBoxDisplay =
                  (IF t.progress * (WhatBoxDelay + WhatBoxDuration)
                          > WhatBoxDelay * SectionLen
                   THEN "flex" ELSE "none")
        /\ (t.kind = "tM2" /\ Synced(t)) =>
              whatBoxDisplay = (IF t.progress > 0 THEN "flex" ELSE "css")

\* C10 (amended): in the wide layout the display is decided by tl2's final
\* progress alone (flex once the scrub is past the 6 s delay of the 6.1 s
\* timeline, none before it); in the compact layout it is a latch: flex from the first
\* time tM2's trigger is entered, whatever the scroll position is later.
C10_WideFollowsCompactLatches ==
    \A i \in 1..Len(triggers) :
        LET t == triggers[i] IN
        /\ (t.kind = "tl2" /\ t.branch = "wide" /\ Synced(t)) =>
              whatBoxDisplay =
                  (IF Progress(AboutStart, scrollY)
                          * (WhatBoxDelay + WhatBoxDuration)
                          > WhatBoxDelay * SectionLen
                   THEN "flex" ELSE "none")
        /\ t.kind = "tM2" =>
              whatBoxDisplay = (IF t.fired THEN "flex" ELSE "css")

\* C10 witness: the compact layout after scrolling past the start of tM2's
\* trigger and back to the top: the element is still flex.
C10_Witness ==
    /\ scrollY = 0
    /\ \E i \in 1..Len(triggers) :
          /\ triggers[i].kind = "tM2"
          /\ triggers[i].fired
          /\ triggers[i].progress = 0
          /\ whatBoxDisplay = "flex"

\* C11: at the endpoints onUpdate writes the endpoint values exactly, in both
\* layouts.  At progress 0: position.y and scale are the ones the group is
\* mounted with and every material's opacity is 1 (the update changes
\* nothing of the rest pose).  At progress 1: y = startY - 2.5 and
\* scale = 0.9 x baseScale (second variant: startY - 8, 0.7 x baseScale) and
\* the faded materials' opacity is 0.
C11_EndpointsExact ==
    (HasHammer(triggers) /\ TheHammer(triggers).fired) =>
        LET t == TheHammer(triggers) IN
        /\ t.progress = 0 =>
              /\ posY = RestY(variant, viewportMobile)
              /\ scl = RestScale(variant, viewportMobile)
              /\ \A m \in Meshes : meshOpacity[m] = 1000 * SectionLen
              /\ \A m \in Meshes :
                    meshVisible[m] = ~(variant = 2 /\ NameIncludesCube(m))
        /\ t.progress = SectionLen =>
              /\ posY = SectionLen *
                    (IF variant = 1
                       THEN (IF viewportMobile THEN -4000 ELSE -3000)
                       ELSE (IF viewportMobile THEN -8500 ELSE -8000))
              /\ scl = SectionLen *
                    (IF variant = 1
                       THEN (IF viewportMobile THEN 4950 ELSE 7200)
                       ELSE (IF viewportMobile THEN 4900 ELSE 8400))
              /\ \A m \in Meshes :
                    ~(variant = 2 /\ NameIncludesCube(m)) => meshOpacity[m] = 0

\* C11 witness: the handler has been called at progress 1 in the compact
\* layout and the hammer has faded out.
C11_Witness ==
    /\ HasHammer(triggers)
    /\ TheHammer(triggers).fired
    /\ TheHammer(triggers).progress = SectionLen
    /\ viewportMobile
    /\ meshOpacity["Handle"] = 0

C13_MonotonicInProgress ==
    [][ (/\ Scroll
         /\ HasHammer(triggers)
         /\ TheHammer(triggers).fired
         /\ HasHammer(triggers')) =>
            LET p1 == TheHammer(triggers).progress
                p2 == TheHammer(triggers').progress
            IN  /\ p1 <= p2 =>
                      /\ posY' <= posY
                      /\ scl' <= scl
                      /\ \A m \in Meshes : meshOpacity'[m] <= meshOpacity[m]
                /\ p1 >= p2 =>
                      /\ posY' >= posY
                      /\ scl' >= scl
                      /\ \A m \in Meshes : meshOpacity'[m] >= meshOpacity[m]
                /\ \A m \in Meshes :
                      meshOpacity'[m] >= 0 /\ meshOpacity'[m] <= 1000 * SectionLen
                /\ scl' > 0 ]_vars

\* C13 witness: the handler has been called strictly between the endpoints,
\* where the hammer is partly faded and below its start position.
C13_Witness ==
    /\ HasHammer(triggers)
    /\ TheHammer(triggers).fired
    /\ TheHammer(triggers).progress > 0
    /\ TheHammer(triggers).progress < SectionLen
    /\ meshOpacity["Handle"] > 0
    /\ meshOpacity["Handle"] < FullOpacity
    /\ posY < RestY(variant, TheHammer(triggers).mobile)

\* C14: the hammer's own trigger survives HammerScene's mount effect in
\* every interleaving, in both variants: once HammerScene's effect and
\* HammerModel's scroll effect have both run, whichever ran first, the
\* hammer's trigger is registered.
C14_HammerTriggerSurvives ==
    (sceneMounted /\ sceneEffects /\ modelPhase = "effected") =>
        HasHammer(triggers)

\* C15: the page and career timelines never accumulate: after any number of
\* runs of HammerScene's effect (first mount, clean-up and re-run, unmount
\* and remount) ScrollTrigger.getAll() holds at most one trigger of each
\* timeline that setPageScrollAnimations and setAllTimeline create.
C15_TimelinesDoNotAccumulate ==
    \A kind \in TimelineKinds :
        Cardinality({i \in 1..Len(triggers) : triggers[i].kind = kind}) <= 1

\* C15 witness: the effect has run at least twice and the scene is mounted
\* with its timelines registered, the earlier run's having been killed.
C15_Witness ==
    /\ Len(handles) >= 2
    /\ sceneMounted
    /\ sceneEffects
    /\ \A kind \in {"tl1", "tl2", "tl3", "career"} :
          Cardinality({i \in 1..Len(triggers) : triggers[i].kind = kind}) = 1

\* C16: in the variant that hides the hammer head, every mesh whose name
\* contains "Cube" is invisible from the material setup on, and no scroll
\* update, at any progress and in any order, makes it visible or changes
\* its material (it keeps the glTF material, at the glTF opacity).
C16_CubeStaysHidden ==
    (variant = 2 /\ modelPhase # "unmounted") =>
        \A m \in Meshes :
            NameIncludesCube(m) =>
                /\ ~meshVisible[m]
                /\ meshMat[m] = "gltf"
                /\ meshOpacity[m] = FullOpacity

\* C16 witness: second variant; the handler has run and the scroll is back
\* at progress 0: the handle is visible again, the head is still hidden.
C16_Witness ==
    /\ variant = 2
    /\ HasHammer(triggers)
    /\ TheHammer(triggers).fired
    /\ TheHammer(triggers).progress = 0
    /\ meshVisible["Handle"]
    /\ ~meshVisible["Cube001"]

\* C17: after each frame tick of Lightning every visible bolt has material
\* opacity = baseOpacity x s, with baseOpacity in [0.8, 1.0] and s the
\* scrollOpacity the scroll handler wrote last (1 if it has written none).
\* So once the handler has written 0 (progress >= 2/3), a bolt that a later
\* tick makes visible has opacity 0.
C17_BoltOpacityFollowsScroll ==
    [][ Frame =>
          \A b \in Bolts :
              boltVisible'[b] =>
                  /\ \E base \in 800..1000 :
                        boltOpacity'[b] =
                           base * (IF scrollOpacity[b] = Undef
                                     THEN 1000 * SectionLen
                                     ELSE scrollOpacity[b])
                  /\ (/\ variant = 1
                      /\ HasHammer(triggers)
                      /\ TheHammer(triggers).fired
                      /\ 3 * TheHammer(triggers).progress >= 2 * SectionLen)
                        => boltOpacity'[b] = 0 ]_vars

\* C17 witness: the handler has written scrollOpacity = 0 and a tick after
\* that made a bolt visible, at opacity 0.
C17_Witness ==
    /\ variant = 1
    /\ rotY
    /\ \E b \in Bolts :
          /\ scrollOpacity[b] = 0
          /\ boltVisible[b]
          /\ boltOpacity[b] = 0

\* C18: in the variant that toggles visibility, after every scroll update
\* each hammer mesh other than the "Cube" ones is visible exactly when its
\* material's opacity is above 0, that is exactly when progress < 2/3; so a
\* mesh hidden at progress >= 2/3 is visible again after the next update
\* with progress < 2/3.
C18_VisibleIffOpaque ==
    (variant = 2 /\ HasHammer(triggers) /\ TheHammer(triggers).fired) =>
        \A m \in Meshes :
            ~NameIncludesCube(m) =>
                /\ meshVisible[m] <=> (meshOpacity[m] > 0)
                /\ meshVisible[m] <=>
                      (3 * TheHammer(triggers).progress < 2 * SectionLen)

\* C18 witness: second variant, an update at progress >= 2/3 has hidden the
\* handle.
C18_Witness ==
    /\ variant = 2
    /\ HasHammer(triggers)
    /\ TheHammer(triggers).fired
    /\ 3 * TheHammer(triggers).progress >= 2 * SectionLen
    /\ ~meshVisible["Handle"]

====
